---- MODULE Spec2Model ----
(***************************************************************************)
(* Model of the leaf server of src/src/server.rs: the biased event loop    *)
(* (Server::update / Server::run), the fragment, flood-request and nack    *)
(* handlers, and the send path (prepare_node_send, send_packet,            *)
(* send_packet_raw, send_message_raw), together with the protocol that     *)
(* consumes reassembled messages.                                          *)
(*                                                                         *)
(* Options are sequences of length 0 (None) or 1 (Some(x)).  HashMaps are  *)
(* functions whose DOMAIN is the key set.                                  *)
(***************************************************************************)
EXTENDS Integers, Sequences, FiniteSets, TLC

VARIABLES
    running,            \* Server.running
    packet_send,        \* ServerSenders.packet_send : NodeId -> endpoint
    session_id,         \* ServerSenders.session_id
    node_path,          \* ServerSenders.node_path   : NodeId -> Routing
    history,            \* ServerSenders.history     : <<Session, FragmentIdx>> -> Packet
    pending_fragments,  \* Server.pending_fragments  : <<Session, NodeId>> -> Seq(Fragment)
    protocol,           \* which ServerProtocol the server was created with
    connected_clients,  \* ChatServer.connected_clients
    file_map,           \* TextServer.file_map / MediaServer.media_map
    controller_recv,    \* commands queued on ServerReceivers.controller_recv
    packet_recv,        \* packets queued on ServerReceivers.packet_recv
    controller_open,    \* FALSE once every sender of controller_recv is dropped
    disconnected,       \* endpoints whose receiving side has been dropped
    inputs,             \* number of items the environment has produced so far
    last,               \* what the latest update() consumed and what it emitted
    log                 \* the same, for every update() that consumed an item so far

vars == <<running, packet_send, session_id, node_path, history, pending_fragments,
          protocol, connected_clients, file_map, controller_recv, packet_recv,
          controller_open, disconnected, inputs, last, log>>

serverVars == <<running, packet_send, session_id, node_path, history,
                pending_fragments, protocol, connected_clients, file_map>>

-----------------------------------------------------------------------------
(* Bounds and universes of the environment's inputs.                        *)

\* Total number of items (commands, packets, channel drops) the environment produces.
MaxInputs == 3

\* The server's own id (Server.id); the other participants.
SelfId == 1
Peers == {2, 3}

\* Session ids of the packets the peers send.
Sessions == {1, 2}

\* Channel endpoints handed to the server as Sender<Packet>.
Endpoints == {1, 2}

\* Option<T>
None == <<>>
Some(x) == <<x>>

\* HashMap helpers
EmptyMap == [k \in {} |-> 0]
MapGet(m, k) == IF k \in DOMAIN m THEN Some(m[k]) ELSE None
MapInsert(m, k, v) == [x \in DOMAIN m \cup {k} |-> IF x = k THEN v ELSE m[x]]
MapRemove_Kept(m, k) == m
MapRemove(m, k) == [x \in DOMAIN m \ {k} |-> m[x]]

-----------------------------------------------------------------------------
(* Routing (wg_2024 SourceRoutingHeader) as used by the server.             *)

Route(hops, hop_index) == [hops |-> hops, hop_index |-> hop_index]

with_first_hop(hops) == Route(hops, 1)

empty_route == Route(<<>>, 0)

source(r) == IF Len(r.hops) = 0 THEN None ELSE Some(r.hops[1])

destination(r) == IF Len(r.hops) = 0 THEN None ELSE Some(r.hops[Len(r.hops)])

current_hop(r) ==
    IF r.hop_index < Len(r.hops) THEN Some(r.hops[r.hop_index + 1]) ELSE None

Reverse(s) == [i \in 1..Len(s) |-> s[Len(s) + 1 - i]]

\* As get_reversed, keeping the hops in their order.
get_reversed_SameOrder(r) == Route(r.hops, Len(r.hops) - r.hop_index - 1)

\* Called only on routes whose hop_index is below their length.
get_reversed(r) == Route(Reverse(r.hops), Len(r.hops) - r.hop_index - 1)

increase_hop_index(r) == Route(r.hops, r.hop_index + 1)

append_hop(r, n) == Route(Append(r.hops, n), r.hop_index)

-----------------------------------------------------------------------------
(* Messages and their fragments (common_structs Message).  A message is a   *)
(* record with a type tag; its wire form is NFragments(m) fragments, the    *)
(* i-th of which carries the i-th slice of the serialized message.          *)

\* Number of fragments the serialized message is split into: only the
\* messages that carry a long chat text need more than one fragment.
NFragments(m) ==
    IF m.type \in {"ReqChatSend", "RespChatFrom"}
    THEN CASE m.chat_msg = "long" -> 2
           [] m.chat_msg = "longer" -> 3
           [] OTHER -> 1
    ELSE IF m.type = "RespMedia" THEN 2 ELSE 1

Fragment(fragment_index, total_n_fragments, data) ==
    [fragment_index |-> fragment_index,
     total_n_fragments |-> total_n_fragments,
     data |-> data]

\* Message::into_fragments: slices in increasing index, each announcing the total.
into_fragments(m) ==
    [i \in 1..NFragments(m) |-> Fragment(i - 1, NFragments(m), <<m, i - 1>>)]

\* The fragment of the list that carries index i, if exactly one does.
FragmentAt(fragments, i) ==
    LET at == {k \in 1..Len(fragments) : fragments[k].fragment_index = i}
    IN  IF Cardinality(at) = 1 THEN Some(fragments[CHOOSE k \in at : TRUE]) ELSE None

\* Message::from_fragments: Ok(message) when the list holds every slice of one
\* message exactly once (in any order), Err otherwise.  None stands for Err.
from_fragments(fragments) ==
    LET n == Len(fragments)
        first == FragmentAt(fragments, 0)
    IN  IF n = 0 \/ first = None THEN None
        ELSE LET m == first[1].data[1]
             IN  IF /\ m.type # "Garbage"
                    /\ NFragments(m) = n
                    /\ \A i \in 0..(n - 1) :
                          FragmentAt(fragments, i) = Some(Fragment(i, n, <<m, i>>))
                 THEN Some(m)
                 ELSE None

-----------------------------------------------------------------------------
(* Packets (wg_2024 Packet).                                                *)

Packet(routing_header, session, pack_type) ==
    [routing_header |-> routing_header, session_id |-> session, pack_type |-> pack_type]

MsgFragment(fragment) == [type |-> "MsgFragment", fragment |-> fragment]
Ack(fragment_index) == [type |-> "Ack", fragment_index |-> fragment_index]
Nack(fragment_index, nack_type) ==
    [type |-> "Nack", fragment_index |-> fragment_index, nack_type |-> nack_type]
FloodRequest(flood_id, initiator_id, path_trace) ==
    [type |-> "FloodRequest", flood_id |-> flood_id,
     initiator_id |-> initiator_id, path_trace |-> path_trace]
FloodResponse(flood_id, path_trace) ==
    [type |-> "FloodResponse", flood_id |-> flood_id, path_trace |-> path_trace]

\* NackType
Dropped == [kind |-> "Dropped"]
UnexpectedRecipient_AsRoutingError(n) == [kind |-> "ErrorInRouting", node |-> n]
UnexpectedRecipient(n) == [kind |-> "UnexpectedRecipient", node |-> n]
ErrorInRouting(n) == [kind |-> "ErrorInRouting", node |-> n]

\* Packet::new_fragment
new_fragment(routing, session, fragment) == Packet(routing, session, MsgFragment(fragment))

\* Packet::get_fragment_index: the fragment's index, 0 for every other packet type.
get_fragment_index(packet) ==
    IF packet.pack_type.type = "MsgFragment"
    THEN packet.pack_type.fragment.fragment_index
    ELSE 0

-----------------------------------------------------------------------------
(* The send path.  The operators below thread a record s holding the        *)
(* fields of ServerSenders (packet_send, session_id, node_path, history)    *)
(* and out, the sequence of everything the running update() has emitted so  *)
(* far: controller events, sends to a neighbor endpoint and on_message      *)
(* calls, in program order.                                                 *)

Senders(ps, sid, np, h, out) ==
    [packet_send |-> ps, session_id |-> sid, node_path |-> np, history |-> h, out |-> out]

\* controller.send(LeafEvent::...)
PacketSendEvent(packet) == [op |-> "PacketSend", packet |-> packet]
ControllerShortcutEvent(packet) == [op |-> "ControllerShortcut", packet |-> packet]
MessageStartSendEvent(start, session, dest, message) ==
    [op |-> "MessageStartSend", start |-> start, session |-> session,
     dest |-> dest, message |-> message]
MessageFullySentEvent(start, session) ==
    [op |-> "MessageFullySent", start |-> start, session |-> session]

\* to.send(packet) on a neighbor endpoint; ok is FALSE when the receiver is gone.
NeighborSend(endpoint, packet) ==
    [op |-> "send", to |-> endpoint, packet |-> packet, ok |-> endpoint \notin disconnected]

\* senders.session_id += 1: a fresh session id is taken.
SessionAllocated(session) == [op |-> "allocate", session |-> session]

\* protocol.on_message(...)
OnMessageCall(from, message, session) ==
    [op |-> "on_message", from |-> from, message |-> message, session |-> session]

Emit(s, entry) == [s EXCEPT !.out = Append(@, entry)]

\* As NextSession, without the increment.
NextSession_Same(current) == current

\* The session id after the current one ("First session has id 1").
NextSession(current) == current + 1

\* PrepareNodeSendError: Left(UnknownNodeIdError) and Right(UnknownNodeInfoError).
UnknownNodeIdError == "UnknownNodeId"
UnknownNodeInfoError == "UnknownNodeInfo"

\* As MissingHopError, reporting the neighbor as unknown.
MissingHopError_AsNodeId == UnknownNodeIdError

\* The error for a stored route without a current hop.
MissingHopError == UnknownNodeInfoError

\* Server::prepare_node_send.  err is "" on success.
prepare_node_send(s, to, increment_session) ==
    LET path == MapGet(s.node_path, to)
        hop == IF path = None THEN None ELSE current_hop(path[1])
        channel == IF hop = None THEN None ELSE MapGet(s.packet_send, hop[1])
        failed(e) == [err |-> e, s |-> s, routing |-> empty_route, session |-> 0, neighbor |-> 0]
    IN  IF path = None THEN failed(UnknownNodeInfoError)
        ELSE IF hop = None THEN failed(MissingHopError)
        ELSE IF channel = None THEN failed(UnknownNodeIdError)
        ELSE LET sid == IF increment_session THEN NextSession(s.session_id) ELSE s.session_id
                 allocated == IF increment_session THEN Emit(s, SessionAllocated(sid)) ELSE s
             IN  [err |-> "",
                  s |-> [allocated EXCEPT !.session_id = sid],
                  routing |-> path[1],
                  session |-> sid,
                  neighbor |-> channel[1]]

\* As RecordsInHistory, recording every packet sent.
RecordsInHistory_Every(packet) == TRUE

\* Only MsgFragments are recorded for a later resend.
RecordsInHistory(packet) == packet.pack_type.type = "MsgFragment"

\* As UsesShortcut, for every type of packet.
UsesShortcut_Any(packet) == TRUE

\* Packet types that may fall back on the simulation controller.
UsesShortcut(packet) == packet.pack_type.type \in {"Ack", "Nack", "FloodResponse"}

\* As HistoryKey, by the session id alone.
HistoryKey_SessionOnly(packet) == <<packet.session_id, 0>>

\* The key a packet is recorded under.
HistoryKey(packet) == <<packet.session_id, get_fragment_index(packet)>>

\* Server::send_packet_raw
send_packet_raw(s, to, packet) ==
    LET recorded == IF RecordsInHistory(packet)
                    THEN [s EXCEPT !.history = MapInsert(@, HistoryKey(packet), packet)]
                    ELSE s
        informed == Emit(recorded, PacketSendEvent(packet))
        sent == Emit(informed, NeighborSend(to, packet))
    IN  IF UsesShortcut(packet) /\ to \in disconnected
        THEN Emit(sent, ControllerShortcutEvent(packet))
        ELSE sent

\* As SessionToUse, always taking the session counter's value.
SessionToUse_Counter(fixed_session, prepared) == prepared

\* fixed_session.unwrap_or(prepared_node_send.session)
SessionToUse(fixed_session, prepared) ==
    IF fixed_session = None THEN prepared ELSE fixed_session[1]

\* Server::send_packet; fixed_session is an Option.
send_packet(s, to, pack_type, fixed_session) ==
    LET prep == prepare_node_send(s, to, fixed_session = None)
    IN  IF prep.err # "" THEN s
        ELSE send_packet_raw(prep.s, prep.neighbor,
                Packet(prep.routing, SessionToUse(fixed_session, prep.session), pack_type))

\* As SendFragments, giving up after the first fragment that could not be
\* handed over.
RECURSIVE SendFragments_StopOnError(_, _, _, _, _, _)
SendFragments_StopOnError(s, to, routing, session, fragments, k) ==
    IF k > Len(fragments) THEN s
    ELSE LET sent == send_packet_raw(s, to, new_fragment(routing, session, fragments[k]))
         IN  IF to \in disconnected THEN sent
             ELSE SendFragments_StopOnError(sent, to, routing, session, fragments, k + 1)

\* The fragment loop of send_message_raw: fragments k..Len(fragments), in order.
RECURSIVE SendFragments(_, _, _, _, _, _)
SendFragments(s, to, routing, session, fragments, k) ==
    IF k > Len(fragments) THEN s
    ELSE SendFragments(
            send_packet_raw(s, to, new_fragment(routing, session, fragments[k])),
            to, routing, session, fragments, k + 1)

\* Server::send_message_raw
send_message_raw(from, s, to, message, fixed_session) ==
    LET prep == prepare_node_send(s, to, fixed_session = None)
        session == SessionToUse(fixed_session, prep.session)
    IN  IF prep.err # "" THEN s
        ELSE LET started == Emit(prep.s, MessageStartSendEvent(from, session, to, message))
                 sent == SendFragments(started, prep.neighbor, prep.routing, session,
                                       into_fragments(message), 1)
             IN  Emit(sent, MessageFullySentEvent(from, session))

\* Server::send_message is entered with these arguments.
SendMessageCall(to, message, fixed_session) ==
    [op |-> "send_message", to |-> to, message |-> message,
     fixed_session |-> fixed_session]

\* Server::send_message: the errors are only logged.
send_message(from, s, to, message, fixed_session) ==
    send_message_raw(from, Emit(s, SendMessageCall(to, message, fixed_session)),
                     to, message, fixed_session)

-----------------------------------------------------------------------------
(* The protocols (ServerProtocol::on_message).  Each returns the set of     *)
(* possible outcomes [s, connected_clients] of one call.                    *)

Outcome(s, clients) == [s |-> s, connected_clients |-> clients]

\* EchoServer::on_message: send back any message received, on its session.
EchoOnMessage(server, s, clients, from, message, session) ==
    {Outcome(send_message(server, s, from, message, Some(session)), clients)}

\* Messages the chat server sends.
RespServerType_Chat(server_type) == [type |-> "RespServerType", server_type |-> "Chat"]
RespServerType(server_type) == [type |-> "RespServerType", server_type |-> server_type]
RespClientList(list) == [type |-> "RespClientList", list |-> list]
RespChatFrom(from, chat_msg) == [type |-> "RespChatFrom", from |-> from, chat_msg |-> chat_msg]
ErrNotExistentClient == [type |-> "ErrNotExistentClient"]
ErrUnsupportedRequestType == [type |-> "ErrUnsupportedRequestType"]

\* As Listings, collecting nothing.
Listings_Empty(clients) == {<<>>}

\* connected_clients.clone().into_iter().collect(): the clients, each once, in
\* whatever order the HashSet yields them.
Listings(clients) ==
    {list \in [1..Cardinality(clients) -> clients] :
        \A i, j \in 1..Cardinality(clients) : list[i] = list[j] => i = j}

\* The loop of ReqChatRegistration over connected_clients.iter(), in whatever
\* order the HashSet yields them: the states of ServerSenders it may end in,
\* from those in states, with the clients in remaining still to be served.
RECURSIVE Broadcast(_, _, _, _)
Broadcast(server, states, remaining, clients) ==
    IF remaining = {} THEN states
    ELSE UNION {Broadcast(server,
                          {send_message(server, s, client, RespClientList(list), None) :
                              s \in states, list \in Listings(clients)},
                          remaining \ {client}, clients) :
                  client \in remaining}

\* The default arm of the three content protocols.
DefaultResponse_Silent(server, s, from, session) == s

DefaultResponse(server, s, from, session) ==
    send_message(server, s, from, ErrUnsupportedRequestType, Some(session))

\* self.connected_clients.insert(from)
Register_Replace(clients, from) == {from}

Register(clients, from) == clients \cup {from}

\* !self.connected_clients.contains(&message.to), negated
IsRegistered_Always(clients, to) == TRUE

IsRegistered(clients, to) == to \in clients

\* ChatServer::on_message
ChatOnMessage(server, s, clients, from, message, session) ==
    CASE message.type = "ReqServerType" ->
            {Outcome(send_message(server, s, from, RespServerType("Chat"), Some(session)),
                     clients)}
      [] message.type = "ReqChatRegistration" ->
            \* Add sender to known clients
            LET registered == Register(clients, from)
            IN  {Outcome(sent, registered) :
                    sent \in Broadcast(server, {s}, registered, registered)}
      [] message.type = "ReqChatClients" ->
            \* List known clients
            {Outcome(send_message(server, s, from, RespClientList(list), Some(session)),
                     clients) : list \in Listings(clients)}
      [] message.type = "ReqChatSend" ->
            IF ~IsRegistered(clients, message.to)
            THEN \* Receiver client has not registered themselves
                 {Outcome(send_message(server, s, from, ErrNotExistentClient, Some(session)),
                          clients)}
            ELSE \* Forward message to known client
                 {Outcome(send_message(server, s, message.to,
                                       RespChatFrom(from, message.chat_msg), None),
                          clients)}
      [] OTHER ->
            \* Default response
            {Outcome(DefaultResponse(server, s, from, session), clients)}

\* Messages the text and media servers send.
RespFilesList(list) == [type |-> "RespFilesList", list |-> list]
RespFile(file) == [type |-> "RespFile", file |-> file]
RespMedia(media) == [type |-> "RespMedia", media |-> media]
ErrNotFound == [type |-> "ErrNotFound"]

\* ServerType::Text(self.uuid) and ServerType::Media(self.uuid), the uuid being
\* the hash of the server's name.
TextServerType == "Text(hash(SamuelTextServer))"
MediaServerType == "Media(hash(SamuelMediaServer))"

\* One outcome [s, file_map] of a call on the text or the media server.
LeafOutcome(s, map) == [s |-> s, file_map |-> map]

\* self.file_map.get(&id) / self.media_map.get(&id)
Lookup_First(map, id) == Some(map[CHOOSE k \in DOMAIN map : TRUE])

Lookup(map, id) == MapGet(map, id)

\* TextServer::on_message
TextOnMessage(server, s, map, from, message, session) ==
    CASE message.type = "ReqServerType" ->
            {LeafOutcome(send_message(server, s, from, RespServerType(TextServerType),
                                      Some(session)), map)}
      [] message.type = "ReqFilesList" ->
            \* List files present in this server
            {LeafOutcome(send_message(server, s, from, RespFilesList(list), Some(session)),
                         map) : list \in Listings(DOMAIN map)}
      [] message.type = "ReqFile" ->
            LET file == Lookup(map, message.link)
            IN  IF file # None
                THEN \* File is present in this server
                     {LeafOutcome(send_message(server, s, from, RespFile(file[1]),
                                               Some(session)), map)}
                ELSE \* File with that id is not known
                     {LeafOutcome(send_message(server, s, from, ErrNotFound,
                                               Some(session)), map)}
      [] OTHER ->
            \* Default response
            {LeafOutcome(DefaultResponse(server, s, from, session), map)}

\* MediaServer::on_message
MediaOnMessage(server, s, map, from, message, session) ==
    CASE message.type = "ReqServerType" ->
            {LeafOutcome(send_message(server, s, from, RespServerType(MediaServerType),
                                      Some(session)), map)}
      [] message.type = "ReqMedia" ->
            LET media == Lookup(map, message.link)
            IN  IF media # None
                THEN \* Media is present in this server
                     {LeafOutcome(send_message(server, s, from, RespMedia(media[1]),
                                               Some(session)), map)}
                ELSE \* Media with that id is not known
                     {LeafOutcome(send_message(server, s, from, ErrNotFound,
                                               Some(session)), map)}
      [] OTHER ->
            \* Default response
            {LeafOutcome(DefaultResponse(server, s, from, session), map)}

\* One outcome [s, connected_clients, file_map] of a call on any protocol.
ProtocolOutcome(s, clients, map) ==
    [s |-> s, connected_clients |-> clients, file_map |-> map]

\* Dispatch on the protocol the server was created with.
ProtocolOnMessage(server, s, clients, from, message, session) ==
    CASE protocol = "Chat" ->
            {ProtocolOutcome(o.s, o.connected_clients, file_map) :
                o \in ChatOnMessage(server, s, clients, from, message, session)}
      [] protocol = "Text" ->
            {ProtocolOutcome(o.s, clients, o.file_map) :
                o \in TextOnMessage(server, s, file_map, from, message, session)}
      [] protocol = "Media" ->
            {ProtocolOutcome(o.s, clients, o.file_map) :
                o \in MediaOnMessage(server, s, file_map, from, message, session)}
      [] OTHER ->
            {ProtocolOutcome(o.s, o.connected_clients, file_map) :
                o \in EchoOnMessage(server, s, clients, from, message, session)}

-----------------------------------------------------------------------------
(* The packet handlers of Server.  Each returns the set of possible results *)
(* [s, pending_fragments, connected_clients, file_map] of handling one      *)
(* packet; only a protocol's on_message reaches the protocol's state.       *)

Result(s, pending, clients) ==
    [s |-> s, pending_fragments |-> pending, connected_clients |-> clients,
     file_map |-> file_map]

\* The log entry of a Message::from_fragments error.
ParseError(from, session) == [op |-> "parse_error", from |-> from, session |-> session]

\* As LearnedRoute, without stepping over the server itself.
LearnedRoute_NotAdvanced(routing) == get_reversed(routing)

\* The route stored for the source of a received fragment.
LearnedRoute(routing) == increase_hop_index(get_reversed(routing))

\* As IsComplete, flushing when the fragment with the last index arrives.
IsComplete_LastIndex(fragments, fragment) ==
    fragment.fragment_index + 1 = fragment.total_n_fragments

\* The flush check of on_fragment: when it holds, the entry is removed and parsed.
IsComplete(fragments, fragment) == Len(fragments) = fragment.total_n_fragments

\* As AckFor, always acknowledging the first fragment.
AckFor_First(fragment) == Ack(0)

\* The acknowledgement of a received fragment.
AckFor(fragment) == Ack(fragment.fragment_index)

\* Server::on_fragment
on_fragment(s, pending, clients, routing, session, fragment) ==
    LET src_id == source(routing)
        des_id == destination(routing)
    IN  IF src_id = None THEN {Result(s, pending, clients)}
        ELSE IF des_id = None \/ des_id[1] # SelfId
        THEN \* Packet is not meant for us
             {Result(send_packet(s, src_id[1],
                                 Nack(fragment.fragment_index, UnexpectedRecipient(SelfId)),
                                 Some(session)),
                     pending, clients)}
        ELSE LET node_id == src_id[1]
                 \* Update route to latest
                 learned == [s EXCEPT !.node_path =
                                MapInsert(@, node_id, LearnedRoute(routing))]
                 acked == send_packet(learned, node_id, AckFor(fragment), Some(session))
                 \* Collect fragment parts until the full message is received
                 key == <<session, node_id>>
                 entry == MapGet(pending, key)
                 fragments == Append(IF entry = None THEN <<>> ELSE entry[1], fragment)
             IN  IF IsComplete(fragments, fragment)
                 THEN LET message == from_fragments(fragments)
                      IN  IF message = None
                          THEN {Result(Emit(acked, ParseError(node_id, session)),
                                       MapRemove(pending, key), clients)}
                          ELSE {[Result(o.s, MapRemove(pending, key), o.connected_clients)
                                    EXCEPT !.file_map = o.file_map] :
                                  o \in ProtocolOnMessage(SelfId,
                                          Emit(acked, OnMessageCall(node_id, message[1], session)),
                                          clients, node_id, message[1], session)}
                 ELSE {Result(acked, MapInsert(pending, key, fragments), clients)}

\* As increment, leaving the path trace as it was received.
increment_Nothing(req, node, node_type) == req

\* FloodRequest::increment
increment(req, node, node_type) ==
    [req EXCEPT !.path_trace = Append(@, <<node, node_type>>)]

\* As InitiatorPath, never completed with the initiator.
InitiatorPath_NoAppend(req) ==
    with_first_hop(Reverse([i \in 1..Len(req.path_trace) |-> req.path_trace[i][1]]))

\* The path to the initiator: the reverse of the path trace, completed with the
\* initiator when the trace does not start with it.
InitiatorPath(req) ==
    LET path == with_first_hop(Reverse([i \in 1..Len(req.path_trace) |-> req.path_trace[i][1]]))
        des == destination(path)
    IN  IF des # None /\ des[1] # req.initiator_id
        THEN append_hop(path, req.initiator_id)
        ELSE path

\* Server::on_flood_request
on_flood_request(s, request) ==
    LET req == increment(request, SelfId, "Server")
        pathed == [s EXCEPT !.node_path = MapInsert(@, req.initiator_id, InitiatorPath(req))]
    IN  send_packet(pathed, req.initiator_id,
                    FloodResponse(req.flood_id, req.path_trace), None)

\* As TriggersResend, for every type of nack.
TriggersResend_Any(nack_type) == TRUE

\* Only a Dropped nack makes the server resend.
TriggersResend(nack_type) == nack_type.kind = "Dropped"

\* As Resend, sending the packet as a new one, on a fresh session.
Resend_FreshSession(s, channel, packet) ==
    send_packet_raw([s EXCEPT !.session_id = @ + 1], channel,
                    [packet EXCEPT !.session_id = s.session_id + 1])

\* As Resend, handing the packet over without telling the controller.
Resend_Unannounced(s, channel, packet) == Emit(s, NeighborSend(channel, packet))

\* The resend of a recorded packet: the raw send, on the packet's own session.
Resend(s, channel, packet) == send_packet_raw(s, channel, packet)

\* Server::on_nack
on_nack(s, session, nack) ==
    IF TriggersResend(nack.nack_type)
    THEN LET resend_packet == MapGet(s.history, <<session, nack.fragment_index>>)
             neighbor_id == IF resend_packet = None THEN None
                            ELSE current_hop(resend_packet[1].routing_header)
             channel == IF neighbor_id = None THEN None
                        ELSE MapGet(s.packet_send, neighbor_id[1])
         IN  IF channel = None THEN s
             ELSE Resend(s, channel[1], resend_packet[1])
    ELSE s

\* As on_ack, forgetting the acknowledged packet.
on_ack_Forgets(s, session, ack) ==
    [s EXCEPT !.history = [k \in DOMAIN @ \ {<<session, ack.fragment_index>>} |-> @[k]]]

\* As on_ack, taking a session id for the acknowledged packet.
on_ack_TakesSession(s, session, ack) == [s EXCEPT !.session_id = @ + 1]

\* PacketType::Ack: nothing is done with an Ack.
on_ack(s, session, ack) == s

-----------------------------------------------------------------------------
(* What the environment may put on the two channels.                        *)

\* LeafCommand
AddSender(n, sender) == [type |-> "AddSender", node_id |-> n, sender |-> sender]
RemoveSender(n) == [type |-> "RemoveSender", node_id |-> n]
Kill == [type |-> "Kill"]

Commands ==
    {AddSender(2, 2), AddSender(3, 2), RemoveSender(2), RemoveSender(3), Kill}

\* Requests a peer may send: of one fragment, of two and of three.
ShortRequest == [type |-> "ReqServerType"]
LongRequest == [type |-> "ReqChatSend", to |-> 2, chat_msg |-> "long"]
LongerRequest == [type |-> "ReqChatSend", to |-> 2, chat_msg |-> "longer"]
Requests == {ShortRequest, LongRequest, LongerRequest}

\* A fragment that announces no fragments at all and carries no message.
EmptyTotalFragment == Fragment(0, 0, <<[type |-> "Garbage"], 0>>)

RequestFragments ==
    {into_fragments(m)[i] : <<m, i>> \in {<<ShortRequest, 1>>, <<LongRequest, 1>>, <<LongRequest, 2>>}}

\* Routes of packets as they arrive: from neighbor 2, from peer 3 through 2,
\* one addressed to peer 3, and one without any hop.
RouteFrom2 == Route(<<2, SelfId>>, 1)
RouteFrom3 == Route(<<3, 2, SelfId>>, 2)
RouteTo3 == Route(<<2, 3>>, 1)

FragmentPackets ==
    {new_fragment(rs[1], rs[2], f) :
        rs \in {<<RouteFrom2, 1>>, <<RouteFrom2, 2>>, <<RouteFrom3, 1>>},
        f \in RequestFragments}
    \cup {new_fragment(RouteFrom2, 2, into_fragments(LongerRequest)[i]) : i \in 1..3}
    \cup {new_fragment(RouteFrom2, 1, EmptyTotalFragment)}
    \cup {new_fragment(RouteTo3, 1, into_fragments(ShortRequest)[1]),
          new_fragment(RouteTo3, 1, into_fragments(LongRequest)[2])}
    \cup {new_fragment(empty_route, 1, into_fragments(ShortRequest)[1])}

NackPackets ==
    {Packet(RouteFrom2, si[1], Nack(si[2], Dropped)) : si \in {<<1, 0>>, <<1, 1>>, <<2, 0>>}}
    \cup {Packet(RouteFrom2, 1, Nack(0, ErrorInRouting(2)))}

FloodRequestPackets ==
    {Packet(empty_route, 1, FloodRequest(7, 2, <<>>)),
     Packet(empty_route, 1, FloodRequest(7, 2, <<<<2, "Client">>>>)),
     Packet(empty_route, 1, FloodRequest(7, 3, <<<<3, "Client">>, <<2, "Drone">>>>))}

AckPackets == {Packet(RouteFrom2, 1, Ack(0))}

\* A packet type update() does not handle.
UnhandledPackets ==
    {Packet(RouteFrom2, 1, FloodResponse(7, <<<<SelfId, "Server">>, <<2, "Client">>>>))}

Packets ==
    FragmentPackets \cup NackPackets \cup FloodRequestPackets \cup AckPackets
        \cup UnhandledPackets

\* Requests of the chat clients, each of one fragment.
RegistrationRequest == [type |-> "ReqChatRegistration"]
ClientsRequest == [type |-> "ReqChatClients"]
SendRequest(to) == [type |-> "ReqChatSend", to |-> to, chat_msg |-> "hi"]
UnsupportedRequest == [type |-> "ReqFilesList"]

\* What the peers of a chat server send: the chat requests, a chat message of
\* two fragments, a fragment addressed to another node, and one packet of
\* every other type.
ChatPackets ==
    {new_fragment(RouteFrom2, 1, into_fragments(m)[1]) :
        m \in {RegistrationRequest, ClientsRequest, SendRequest(3), UnsupportedRequest,
               ShortRequest}}
    \cup {new_fragment(RouteFrom3, 1, into_fragments(m)[1]) :
            m \in {RegistrationRequest, SendRequest(2)}}
    \cup {new_fragment(RouteFrom2, 1, into_fragments(LongRequest)[i]) : i \in 1..2}
    \cup {new_fragment(RouteTo3, 1, into_fragments(ShortRequest)[1])}
    \cup {Packet(RouteFrom2, 1, Nack(0, Dropped)),
          Packet(empty_route, 1, FloodRequest(7, 3, <<<<3, "Client">>, <<2, "Drone">>>>))}
    \cup AckPackets \cup UnhandledPackets

\* Requests of the clients of a text or a media server.
FilesListRequest == [type |-> "ReqFilesList"]
FileRequest(link) == [type |-> "ReqFile", link |-> link]
MediaRequest(link) == [type |-> "ReqMedia", link |-> link]

\* One packet of every type that is not a fragment.
ControlPackets ==
    {Packet(RouteFrom2, 1, Nack(0, Dropped)),
     Packet(empty_route, 1, FloodRequest(7, 3, <<<<3, "Client">>, <<2, "Drone">>>>))}
    \cup AckPackets \cup UnhandledPackets

\* What the peers of a text server send: its requests, for a stored file and
\* for a missing one, and a request of another protocol.
TextPackets ==
    {new_fragment(RouteFrom2, 1, into_fragments(m)[1]) :
        m \in {ShortRequest, FilesListRequest, FileRequest("helloworld"),
               FileRequest("missing"), ClientsRequest}}
    \cup {new_fragment(RouteFrom3, 1, into_fragments(FileRequest("plophub"))[1])}
    \cup ControlPackets

\* What the peers of a media server send.
MediaPackets ==
    {new_fragment(RouteFrom2, 1, into_fragments(m)[1]) :
        m \in {ShortRequest, MediaRequest("chicken.jpeg"), MediaRequest("missing"),
               FilesListRequest}}
    \cup {new_fragment(RouteFrom3, 1, into_fragments(MediaRequest("chicken.jpeg"))[1])}
    \cup ControlPackets

\* The packets the peers of a server with the given protocol send.
PacketsFor(server_protocol) ==
    CASE server_protocol = "Chat" -> ChatPackets
      [] server_protocol = "Text" -> TextPackets
      [] server_protocol = "Media" -> MediaPackets
      [] OTHER -> Packets

\* The files Leaf::new of the text server stores.
TextFiles ==
    ("helloworld" :> [file |-> "Hello, World!", related_data |-> EmptyMap])
    @@ ("plophub" :> [file |-> "# Plopmenz\n![Profile Picture](chicken.jpeg)",
                      related_data |-> ("chicken.jpeg" :> "hash(SamuelMediaServer)")])

\* The media Leaf::new of the media server stores.
MediaFiles == ("chicken.jpeg" :> "include_bytes!(chicken.jpeg)")

\* The map the protocol is constructed with.
FilesOf(implementation) ==
    CASE implementation = "Text" -> TextFiles
      [] implementation = "Media" -> MediaFiles
      [] OTHER -> EmptyMap

-----------------------------------------------------------------------------
(* Initial state: Server::create with one neighbor, the Echo protocol.      *)

Consumed(branch, item, out) == [branch |-> branch, item |-> item, out |-> out]

InitWith(implementation) ==
    /\ running = TRUE
    /\ packet_send = (2 :> 1)
    /\ session_id = 0
    /\ node_path = EmptyMap
    /\ history = EmptyMap
    /\ pending_fragments = EmptyMap
    /\ protocol = implementation
    /\ connected_clients = {}
    /\ file_map = FilesOf(implementation)
    /\ controller_recv = <<>>
    /\ packet_recv = <<>>
    /\ controller_open = TRUE
    /\ disconnected = {}
    /\ inputs = 0
    /\ last = Consumed("none", [type |-> "none"], <<>>)
    /\ log = <<>>

\* Server::create(.., EchoServer)
Init == InitWith("Echo")

\* Server::<ChatServer>::new: Server::create(.., ChatServer::new(HashSet::new()))
InitChat == InitWith("Chat")

\* Server::<TextServer>::new
InitText == InitWith("Text")

\* Server::<MediaServer>::new
InitMedia == InitWith("Media")

\* Any of the three content servers.
InitLeaf == InitChat \/ InitText \/ InitMedia

-----------------------------------------------------------------------------
(* The environment.                                                         *)

\* The controller queues a command.
SendCommand ==
    /\ inputs < MaxInputs
    /\ controller_open
    /\ \E c \in Commands : controller_recv' = Append(controller_recv, c)
    /\ inputs' = inputs + 1
    /\ UNCHANGED <<serverVars, packet_recv, controller_open, disconnected, last, log>>

\* A neighbor queues a packet.
SendPacket ==
    /\ inputs < MaxInputs
    /\ \E p \in PacketsFor(protocol) : packet_recv' = Append(packet_recv, p)
    /\ inputs' = inputs + 1
    /\ UNCHANGED <<serverVars, controller_recv, controller_open, disconnected, last, log>>

\* The controller drops its sender of controller_recv.
CloseController ==
    /\ inputs < MaxInputs
    /\ controller_open
    /\ controller_open' = FALSE
    /\ inputs' = inputs + 1
    /\ UNCHANGED <<serverVars, controller_recv, packet_recv, disconnected, last, log>>

\* A neighbor drops the receiving side of an endpoint.
DropReceiver ==
    /\ inputs < MaxInputs
    /\ \E e \in Endpoints \ disconnected : disconnected' = disconnected \cup {e}
    /\ inputs' = inputs + 1
    /\ UNCHANGED <<serverVars, controller_recv, packet_recv, controller_open, last, log>>

-----------------------------------------------------------------------------
(* Server::update, one action per branch.  select_biased! takes the first   *)
(* ready operation: controller_recv is ready when it holds a command or is  *)
(* disconnected, packet_recv when it holds a packet.  Server::run calls     *)
(* update() while running.                                                  *)

ControllerReady == controller_recv # <<>> \/ ~controller_open
PacketReady == packet_recv # <<>>

\* The branch select_biased! takes: "controller", "packet" or "blocked".
Selected ==
    IF ControllerReady THEN "controller"
    ELSE IF PacketReady THEN "packet"
    ELSE "blocked"

\* As LoopCondition, for a loop that never looks at the running flag.
LoopCondition_Always == TRUE

\* Server::run: update() is called while the running flag is set.
LoopCondition == running

TakesCommand(type) ==
    /\ LoopCondition
    /\ Selected = "controller"
    /\ controller_recv # <<>>
    /\ Head(controller_recv).type = type
    /\ controller_recv' = Tail(controller_recv)
    /\ UNCHANGED <<packet_recv, controller_open, disconnected, inputs>>

TakesPacket(types) ==
    /\ LoopCondition
    /\ Selected = "packet"
    /\ Head(packet_recv).pack_type.type \in types
    /\ packet_recv' = Tail(packet_recv)
    /\ UNCHANGED <<controller_recv, controller_open, disconnected, inputs>>

\* What the update() consumed and emitted is kept in last and added to log.
Consume(branch, item, out) ==
    /\ last' = Consumed(branch, item, out)
    /\ log' = Append(log, Consumed(branch, item, out))

\* As EvictsRoute, evicting the route whether or not an endpoint was removed.
EvictsRoute_Always(senders, node_id) == TRUE

\* packet_send.remove(&node_id).is_some(): the route is evicted with the endpoint.
EvictsRoute(senders, node_id) == node_id \in DOMAIN senders

\* LeafCommand::RemoveSender
UpdateRemoveSender ==
    /\ TakesCommand("RemoveSender")
    /\ LET node_id == Head(controller_recv).node_id
       IN  /\ packet_send' = MapRemove(packet_send, node_id)
           /\ node_path' = IF EvictsRoute(packet_send, node_id)
                           THEN MapRemove(node_path, node_id)
                           ELSE node_path
    /\ Consume("controller", Head(controller_recv), <<>>)
    /\ UNCHANGED <<running, session_id, history, pending_fragments, protocol,
                   connected_clients, file_map>>

\* LeafCommand::AddSender
UpdateAddSender ==
    /\ TakesCommand("AddSender")
    /\ LET node_id == Head(controller_recv).node_id
       IN  /\ packet_send' = MapInsert(packet_send, node_id, Head(controller_recv).sender)
           \* Add known route to this node (direct)
           /\ node_path' = MapInsert(node_path, node_id, with_first_hop(<<node_id>>))
    /\ Consume("controller", Head(controller_recv), <<>>)
    /\ UNCHANGED <<running, session_id, history, pending_fragments, protocol,
                   connected_clients, file_map>>

\* LeafCommand::Kill
UpdateKill ==
    /\ TakesCommand("Kill")
    /\ running' = FALSE
    /\ Consume("controller", Head(controller_recv), <<>>)
    /\ UNCHANGED <<packet_send, session_id, node_path, history, pending_fragments,
                   protocol, connected_clients, file_map>>

\* The controller branch when recv returns Err: every sender is gone.
UpdateDisconnected ==
    /\ LoopCondition
    /\ Selected = "controller"
    /\ controller_recv = <<>>
    /\ last' = Consumed("controller", [type |-> "Err"], <<>>)
    /\ UNCHANGED <<serverVars, controller_recv, packet_recv, controller_open,
                   disconnected, inputs, log>>

\* The state of ServerSenders at the start of an update().
CurrentSenders == Senders(packet_send, session_id, node_path, history, <<>>)

SendersBecome(s) ==
    /\ packet_send' = s.packet_send
    /\ session_id' = s.session_id
    /\ node_path' = s.node_path
    /\ history' = s.history

\* PacketType::MsgFragment
UpdateFragment ==
    /\ TakesPacket({"MsgFragment"})
    /\ LET packet == Head(packet_recv)
       IN  \E r \in on_fragment(CurrentSenders, pending_fragments, connected_clients,
                                packet.routing_header, packet.session_id,
                                packet.pack_type.fragment) :
              /\ SendersBecome(r.s)
              /\ pending_fragments' = r.pending_fragments
              /\ connected_clients' = r.connected_clients
              /\ file_map' = r.file_map
              /\ Consume("packet", packet, r.s.out)
    /\ UNCHANGED <<running, protocol>>

\* PacketType::FloodRequest
UpdateFloodRequest ==
    /\ TakesPacket({"FloodRequest"})
    /\ LET packet == Head(packet_recv)
           s == on_flood_request(CurrentSenders, packet.pack_type)
       IN  /\ SendersBecome(s)
           /\ Consume("packet", packet, s.out)
    /\ UNCHANGED <<running, pending_fragments, protocol, connected_clients, file_map>>

\* PacketType::Nack
UpdateNack ==
    /\ TakesPacket({"Nack"})
    /\ LET packet == Head(packet_recv)
           s == on_nack(CurrentSenders, packet.session_id, packet.pack_type)
       IN  /\ SendersBecome(s)
           /\ Consume("packet", packet, s.out)
    /\ UNCHANGED <<running, pending_fragments, protocol, connected_clients, file_map>>

\* PacketType::Ack
UpdateAck ==
    /\ TakesPacket({"Ack"})
    /\ LET packet == Head(packet_recv)
           s == on_ack(CurrentSenders, packet.session_id, packet.pack_type)
       IN  /\ SendersBecome(s)
           /\ Consume("packet", packet, s.out)
    /\ UNCHANGED <<running, pending_fragments, protocol, connected_clients, file_map>>

\* The packet types the server does not handle: only a warning is logged.
UpdateUnhandled ==
    /\ TakesPacket({"FloodResponse"})
    /\ Consume("packet", Head(packet_recv), <<>>)
    /\ UNCHANGED serverVars

Next ==
    \/ SendCommand
    \/ SendPacket
    \/ CloseController
    \/ DropReceiver
    \/ UpdateRemoveSender
    \/ UpdateAddSender
    \/ UpdateKill
    \/ UpdateDisconnected
    \/ UpdateFragment
    \/ UpdateFloodRequest
    \/ UpdateNack
    \/ UpdateAck
    \/ UpdateUnhandled

Spec == Init /\ [][Next]_vars

\* update() takes the packet at the head of packet_recv.
TakesFromPacketChannel == packet_recv # <<>> /\ packet_recv' = Tail(packet_recv)

\* Server::run keeps calling update() while the running flag is set, and an
\* update() whose select_biased! finds an operation ready completes it: the
\* controller branch when controller_recv is ready, the packet branch (weak
\* fairness, with the enabling condition of the packet branch written out) when
\* only packet_recv is.
SpecFair ==
    /\ Init /\ [][Next]_vars
    /\ WF_vars(UpdateRemoveSender \/ UpdateAddSender \/ UpdateKill \/ UpdateDisconnected)
    /\ ([]<>~(LoopCondition /\ Selected = "packet")
          \/ []<><<TakesFromPacketChannel>>_vars)

\* The same server, created with the chat protocol.
SpecChat == InitChat /\ [][Next]_vars

\* Any of the three content servers.
SpecLeaf == InitLeaf /\ [][Next]_vars

-----------------------------------------------------------------------------
(* Properties.  last describes the latest update(): the item it consumed    *)
(* and, in last.out, what it emitted.  Action properties compare the state  *)
(* before an update() with the state after it.                              *)

LastIs(type) == last.branch = "packet" /\ last.item.pack_type.type = type

\* The sends to a neighbor endpoint recorded in out, in order.
Sends(out) == SelectSeq(out, LAMBDA e : e.op = "send")
SendsOf(out, type) ==
    SelectSeq(out, LAMBDA e : e.op = "send" /\ e.packet.pack_type.type = type)
Calls(out) == SelectSeq(out, LAMBDA e : e.op = "on_message")

\* The latest update() handled a fragment with a source, addressed to the server.
LastFragmentForSelf ==
    /\ LastIs("MsgFragment")
    /\ source(last.item.routing_header) # None
    /\ destination(last.item.routing_header) = Some(SelfId)

\* The latest update() handled a fragment with a source, addressed elsewhere.
LastFragmentForOther ==
    /\ LastIs("MsgFragment")
    /\ source(last.item.routing_header) # None
    /\ destination(last.item.routing_header) # Some(SelfId)

\* The node before the server on a route of at least two hops.
PreviousHop(r) == r.hops[Len(r.hops) - 1]

\* entry is a send of an Ack for the fragment packet p, routed to p's source.
IsAckOf(entry, p) ==
    /\ entry.packet.pack_type = [type |-> "Ack",
                                 fragment_index |-> p.pack_type.fragment.fragment_index]
    /\ entry.packet.session_id = p.session_id
    /\ destination(entry.packet.routing_header) = source(p.routing_header)

\* C1 as stated: every fragment with a source that is addressed to the server is
\* answered, in the same update(), by exactly one Ack toward the source with the
\* packet's session id and the fragment's index, whatever the server's state.
C1_AckForEveryFragment ==
    LastFragmentForSelf =>
        LET acks == SendsOf(last.out, "Ack")
        IN  Len(acks) = 1 /\ IsAckOf(acks[1], last.item)

\* C1 amended: a fragment addressed to the server over a route of at least two
\* hops, with the hop index at the last one, is answered by exactly one Ack (session and index of the fragment, routed
\* to the source, handed to the endpoint of the hop before the server) when that
\* hop is in the neighbor table, and by no Ack when it is not.
C1_AckThroughKnownNeighbor ==
    LastFragmentForSelf =>
        LET acks == SendsOf(last.out, "Ack")
            previous == PreviousHop(last.item.routing_header)
        IN  IF previous \in DOMAIN packet_send
            THEN /\ Len(acks) = 1
                 /\ IsAckOf(acks[1], last.item)
                 /\ acks[1].to = packet_send[previous]
            ELSE acks = <<>>

C1_Witness ==
    /\ LastFragmentForSelf
    /\ Len(SendsOf(last.out, "Ack")) = 1
    /\ last.item.routing_header = RouteFrom3

\* entry is a send of Nack{index of p, UnexpectedRecipient(self)} on p's session,
\* routed to p's source.
IsUnexpectedRecipientNackOf(entry, p) ==
    /\ entry.packet.pack_type =
          [type |-> "Nack",
           fragment_index |-> p.pack_type.fragment.fragment_index,
           nack_type |-> [kind |-> "UnexpectedRecipient", node |-> SelfId]]
    /\ entry.packet.session_id = p.session_id
    /\ destination(entry.packet.routing_header) = source(p.routing_header)

\* C2 as stated: every fragment addressed to another node is answered by exactly
\* one Nack{fragment_index, UnexpectedRecipient(self)} toward the source on the
\* packet's session and by no Ack, whatever the routing and neighbor tables hold.
C2_NackForEveryMisroutedFragment ==
    LastFragmentForOther =>
        LET nacks == SendsOf(last.out, "Nack")
        IN  /\ Len(nacks) = 1
            /\ IsUnexpectedRecipientNackOf(nacks[1], last.item)
            /\ SendsOf(last.out, "Ack") = <<>>

\* C2 amended: a fragment addressed to another node is never answered by an Ack;
\* it is answered by exactly one Nack{fragment_index, UnexpectedRecipient(self)}
\* on the packet's session, sent on the stored route to the source through that
\* route's current hop, when such a route is stored and its current hop is in
\* the neighbor table, and by no packet at all otherwise.
C2_NackOnStoredRoute ==
    LastFragmentForOther =>
        LET src == source(last.item.routing_header)[1]
            stored == MapGet(node_path, src)
            hop == IF stored = None THEN None ELSE current_hop(stored[1])
            sends == Sends(last.out)
        IN  IF hop # None /\ hop[1] \in DOMAIN packet_send
            THEN /\ Len(sends) = 1
                 /\ IsUnexpectedRecipientNackOf(sends[1], last.item)
                 /\ sends[1].packet.routing_header = stored[1]
                 /\ sends[1].to = packet_send[hop[1]]
            ELSE sends = <<>>

C2_Witness ==
    /\ LastFragmentForOther
    /\ Len(SendsOf(last.out, "Nack")) = 1

\* update() is about to handle the packet p, taken from packet_recv.
HandlesPacket(p) ==
    /\ running
    /\ Selected = "packet"
    /\ p = Head(packet_recv)
    /\ packet_recv' = Tail(packet_recv)

\* C3: handling a fragment that is addressed to another node changes nothing of
\* the server: routing table, neighbor table, session counter, send history,
\* reassembly buffer, protocol state and running flag stay as they were, and
\* on_message is not called.
C3_MisroutedFragmentChangesNothing ==
    [][\A p \in FragmentPackets :
          (/\ HandlesPacket(p)
           /\ source(p.routing_header) # None
           /\ destination(p.routing_header) # Some(SelfId))
          => UNCHANGED serverVars /\ Calls(last'.out) = <<>>]_vars

C3_Witness ==
    /\ LastFragmentForOther
    /\ Len(SendsOf(last.out, "Nack")) = 1
    /\ DOMAIN history # {}

\* The fragments buffered for the source and session of the fragment packet p,
\* before it is handled, with its own fragment appended.
BufferedWith(p) ==
    LET key == <<p.session_id, source(p.routing_header)[1]>>
    IN  Append(IF key \in DOMAIN pending_fragments THEN pending_fragments[key] ELSE <<>>,
               p.pack_type.fragment)

ForSelf(p) ==
    source(p.routing_header) # None /\ destination(p.routing_header) = Some(SelfId)

\* C4: when the fragments buffered for a (session, peer), with the one being
\* handled, are as many as total_n_fragments and parse to a message, on_message
\* is called exactly once, with (peer, message, session), and the entry of
\* (session, peer) is gone when the update() returns; on_message is called in no
\* other case, so it has never been called for a key whose entry is present.
C4_CompleteGroupDeliveredOnceAndRemoved ==
    [][\A p \in FragmentPackets :
          (HandlesPacket(p) /\ ForSelf(p)) =>
            LET src == source(p.routing_header)[1]
                group == BufferedWith(p)
                calls == Calls(last'.out)
            IN  IF /\ Len(group) = p.pack_type.fragment.total_n_fragments
                   /\ from_fragments(group) # None
                THEN /\ calls = <<[op |-> "on_message", from |-> src,
                                   message |-> from_fragments(group)[1],
                                   session |-> p.session_id]>>
                     /\ <<p.session_id, src>> \notin DOMAIN pending_fragments'
                ELSE calls = <<>>]_vars

C4_Witness ==
    /\ LastFragmentForSelf
    /\ Len(Calls(last.out)) = 1
    /\ Calls(last.out)[1].message = LongRequest
    /\ <<last.item.session_id, source(last.item.routing_header)[1]>>
          \notin DOMAIN pending_fragments

\* The elements of a sequence.
Range(seq) == {seq[i] : i \in DOMAIN seq}

\* The entries of log that handled a fragment of peer src on the session,
\* addressed to the server.
Arrivals(session, src) ==
    SelectSeq(log, LAMBDA c :
        /\ c.branch = "packet"
        /\ c.item.pack_type.type = "MsgFragment"
        /\ c.item.session_id = session
        /\ source(c.item.routing_header) = Some(src)
        /\ destination(c.item.routing_header) = Some(SelfId))

\* The arrivals are distinct fragments of the message m and nothing else.
ArrivalsOf(arrivals, m) ==
    /\ \A i \in 1..Len(arrivals) :
          arrivals[i].item.pack_type.fragment \in Range(into_fragments(m))
    /\ \A i, j \in 1..Len(arrivals) :
          arrivals[i].item.pack_type.fragment = arrivals[j].item.pack_type.fragment => i = j

\* C5: while the fragments of a k-fragment message of one peer on one session
\* arrive, in any order, on_message is not called by the update() that handles
\* the first, ..., (k-1)-th of them and is called, with peer, message and
\* session, by the update() that handles the k-th; for k = 1 that is the first
\* arrival.
C5_DeliveredAtLastArrival ==
    \A session \in Sessions : \A src \in Peers :
        LET arrivals == Arrivals(session, src)
        IN  \A m \in Requests :
              (arrivals # <<>> /\ ArrivalsOf(arrivals, m)) =>
                \A i \in 1..Len(arrivals) :
                   Calls(arrivals[i].out) =
                      IF i = NFragments(m)
                      THEN <<[op |-> "on_message", from |-> src, message |-> m,
                              session |-> session]>>
                      ELSE <<>>

\* A three-fragment message delivered by the arrival of its first fragment.
C5_Witness ==
    /\ LastFragmentForSelf
    /\ Len(Calls(last.out)) = 1
    /\ Calls(last.out)[1].message = LongerRequest
    /\ last.item.pack_type.fragment.fragment_index = 0
    /\ Len(Arrivals(2, 2)) = 3

\* C6: every MsgFragment packet handed to a neighbor is in the send history under
\* (session, fragment index), and no step ever removes a key from the history.
C6_HistoryNeverEvicted ==
    [][/\ DOMAIN history \subseteq DOMAIN history'
       /\ \A i \in 1..Len(last'.out) :
             (last'.out[i].op = "send" /\ last'.out[i].packet.pack_type.type = "MsgFragment")
             => <<last'.out[i].packet.session_id,
                  last'.out[i].packet.pack_type.fragment.fragment_index>>
                   \in DOMAIN history']_vars

C6_Witness ==
    /\ LastIs("Ack")
    /\ <<last.item.session_id, last.item.pack_type.fragment_index>> \in DOMAIN history

\* update() consumes an item of one of its channels in this step.
ConsumesItem ==
    \/ controller_recv # <<>> /\ controller_recv' = Tail(controller_recv)
    \/ packet_recv # <<>> /\ packet_recv' = Tail(packet_recv)

Allocations(out) == SelectSeq(out, LAMBDA e : e.op = "allocate")

\* C7: the session counter starts at 0 and never decreases; the ids allocated
\* by one update() are each greater than the counter before it (which is the
\* greatest id allocated so far) and than the ids allocated before them, so the
\* first is 1 and 0 is never allocated; the counter ends at the last allocated
\* id, and a flood response carries the id allocated for it.
C7_SessionCounterMonotonic ==
    /\ session_id = 0
    /\ [][/\ session_id' >= session_id
          /\ ConsumesItem =>
               LET allocated == Allocations(last'.out)
                   at(i) == IF i = 0 THEN session_id ELSE allocated[i].session
               IN  /\ \A i \in 1..Len(allocated) : at(i) > at(i - 1) /\ at(i) >= 1
                   /\ session_id' = at(Len(allocated))
                   /\ \A i \in 1..Len(last'.out) :
                         (last'.out[i].op = "send"
                            /\ last'.out[i].packet.pack_type.type = "FloodResponse")
                         => last'.out[i].packet.session_id = session_id']_vars

C7_Witness ==
    /\ LastIs("FloodRequest")
    /\ Len(Allocations(last.out)) = 1
    /\ session_id = 2

\* C8 as stated: a Dropped nack for (session, index) that is in the send history
\* makes the server send exactly the stored packet, once; any other nack sends
\* nothing.
C8_ResendWheneverRecorded ==
    LastIs("Nack") =>
        LET key == <<last.item.session_id, last.item.pack_type.fragment_index>>
            sends == Sends(last.out)
        IN  IF last.item.pack_type.nack_type.kind = "Dropped" /\ key \in DOMAIN history
            THEN Len(sends) = 1 /\ sends[1].packet = history[key]
            ELSE sends = <<>>

\* C8 amended: a Dropped nack for (session, index) makes the server send exactly
\* the packet stored under that key, once, to the endpoint of the stored route's
\* current hop, when the key is in the send history and that hop is still in
\* the neighbor table; in every other case, and for every other type of nack,
\* nothing is sent and no event is emitted.
C8_ResendThroughKnownNeighbor ==
    [][\A p \in NackPackets :
          HandlesPacket(p) =>
            LET key == <<p.session_id, p.pack_type.fragment_index>>
                hop == IF key \in DOMAIN history
                       THEN current_hop(history[key].routing_header)
                       ELSE None
                sends == Sends(last'.out)
            IN  IF /\ p.pack_type.nack_type.kind = "Dropped"
                   /\ hop # None
                   /\ hop[1] \in DOMAIN packet_send
                THEN /\ Len(sends) = 1
                     /\ sends[1].packet = history[key]
                     /\ sends[1].to = packet_send[hop[1]]
                ELSE last'.out = <<>>]_vars

C8_Witness ==
    /\ LastIs("Nack")
    /\ Len(Sends(last.out)) = 1
    /\ Sends(last.out)[1].packet.pack_type.fragment.fragment_index = 1

\* C9: handling a nack, of any type, changes neither the session counter nor
\* the send history.
C9_NackKeepsSessionAndHistory ==
    [][\A p \in NackPackets :
          HandlesPacket(p) => UNCHANGED <<session_id, history>>]_vars

\* A nack that made the server resend a packet.
C9_Witness ==
    /\ LastIs("Nack")
    /\ Len(SendsOf(last.out, "MsgFragment")) = 1

\* C10 as stated: every update() consumes exactly one item: the first command
\* when a command is queued, leaving packet_recv as it is, and the first packet
\* only when no command is queued.
C10_OneItemPerStep ==
    [][(last' # last \/ ConsumesItem) =>
          \/ /\ controller_recv # <<>>
             /\ controller_recv' = Tail(controller_recv)
             /\ packet_recv' = packet_recv
             /\ last'.item = Head(controller_recv)
          \/ /\ controller_recv = <<>>
             /\ packet_recv # <<>>
             /\ packet_recv' = Tail(packet_recv)
             /\ controller_recv' = controller_recv
             /\ last'.item = Head(packet_recv)]_vars

\* The updates that processed a Kill command, as positions of log.
KillsProcessed ==
    {i \in 1..Len(log) : log[i].branch = "controller" /\ log[i].item.type = "Kill"}

\* C11: the running flag is false exactly from the update() that processes Kill
\* on: it is never set again, and that update() is the last one ever made, so
\* that no command or packet, queued before or after, is processed once the flag
\* is false.
C11_KillStopsTheLoop ==
    /\ running <=> KillsProcessed = {}
    /\ ~running =>
          /\ KillsProcessed = {Len(log)}
          /\ last = log[Len(log)]

\* The server was killed while a command and a packet were still queued.
C11_Witness ==
    /\ ~running
    /\ controller_recv # <<>>
    /\ packet_recv # <<>>

\* The latest update() handled a command of the given type.
LastCommandIs(type) == last.branch = "controller" /\ last.item.type = type

\* C12 as stated: after AddSender(id, endpoint) the neighbor table maps id to the
\* endpoint and the routing table holds a route to id whose current hop is id,
\* so that a send to id that follows resolves and hands its packet to that
\* endpoint, whatever route to id was stored before.
C12_AddSenderMakesReachable ==
    LastCommandIs("AddSender") =>
        LET id == last.item.node_id
            sends == Sends(send_packet(CurrentSenders, id, Ack(0), Some(1)).out)
        IN  /\ MapGet(packet_send, id) = Some(last.item.sender)
            /\ id \in DOMAIN node_path
            /\ current_hop(node_path[id]) = Some(id)
            /\ Len(sends) = 1
            /\ sends[1].to = last.item.sender

\* update() is about to handle the command c, taken from controller_recv.
HandlesCommand(c) ==
    /\ running
    /\ controller_recv # <<>>
    /\ c = Head(controller_recv)
    /\ controller_recv' = Tail(controller_recv)

\* The map after is the map before without the key k: every other entry is kept
\* as it was.
IsWithout(after, before, k) ==
    /\ DOMAIN after = DOMAIN before \ {k}
    /\ \A x \in DOMAIN after : after[x] = before[x]

\* C13: RemoveSender(id) of a neighbor removes the endpoint of id and the route
\* keyed by id and keeps every other endpoint and every route keyed by another
\* peer, also one whose current hop is id; RemoveSender(id) of a node that is
\* not a neighbor changes neither table, a route keyed by id included.
C13_RemoveSenderFrame ==
    [][\A c \in Commands :
          (HandlesCommand(c) /\ c.type = "RemoveSender") =>
            IF c.node_id \in DOMAIN packet_send
            THEN /\ IsWithout(packet_send', packet_send, c.node_id)
                 /\ IsWithout(node_path', node_path, c.node_id)
            ELSE UNCHANGED <<packet_send, node_path>>]_vars

\* Neighbor 2 was removed and the route to peer 3 still goes through it.
C13_Witness ==
    /\ LastCommandIs("RemoveSender")
    /\ last.item.node_id = 2
    /\ 2 \notin DOMAIN packet_send
    /\ 2 \notin DOMAIN node_path
    /\ 3 \in DOMAIN node_path
    /\ current_hop(node_path[3]) = Some(2)

\* entry is a send of the flood response to the flood request packet p: same
\* flood id, the request's path trace followed by (self, Server), routed to the
\* initiator.
IsFloodResponseTo(entry, p) ==
    /\ entry.packet.pack_type =
          [type |-> "FloodResponse",
           flood_id |-> p.pack_type.flood_id,
           path_trace |-> Append(p.pack_type.path_trace, <<SelfId, "Server">>)]
    /\ destination(entry.packet.routing_header) = Some(p.pack_type.initiator_id)

\* The node the response to a flood request is handed to: the last node of the
\* request's path trace, the initiator itself when the trace is empty.
FirstHopBack(req) ==
    IF req.path_trace = <<>> THEN req.initiator_id
    ELSE req.path_trace[Len(req.path_trace)][1]

\* C14 as stated: every flood request is answered by exactly one packet, the
\* FloodResponse with its flood id and its path trace followed by (self, Server),
\* addressed to the initiator, whatever the neighbor table holds; the request is
\* not sent on.
C14_ResponseToEveryFloodRequest ==
    LastIs("FloodRequest") =>
        LET sends == Sends(last.out)
        IN  Len(sends) = 1 /\ IsFloodResponseTo(sends[1], last.item)

\* C14 amended: a flood request is never sent on to a neighbor; when the last
\* node of its path trace (the initiator, for an empty trace) is in the neighbor
\* table, exactly one packet is handed to that neighbor's endpoint, the
\* FloodResponse with the request's flood id and its path trace followed by
\* (self, Server), addressed to the initiator; when it is not, no packet is sent
\* and no event is emitted.
C14_ResponseThroughKnownNeighbor ==
    LastIs("FloodRequest") =>
        LET sends == Sends(last.out)
            back == FirstHopBack(last.item.pack_type)
        IN  /\ SendsOf(last.out, "FloodRequest") = <<>>
            /\ IF back \in DOMAIN packet_send
               THEN /\ Len(sends) = 1
                    /\ IsFloodResponseTo(sends[1], last.item)
                    /\ sends[1].to = packet_send[back]
               ELSE last.out = <<>>

\* A flood request of initiator 3 that came through drone 2 was answered.
C14_Witness ==
    /\ LastIs("FloodRequest")
    /\ last.item.pack_type.initiator_id = 3
    /\ Len(SendsOf(last.out, "FloodResponse")) = 1

\* The node ids of a flood request's path trace followed by the server, in
\* reverse order, with the initiator appended when they do not end with it.
ReturnHops(req) ==
    LET n == Len(req.path_trace) + 1
        ids == [i \in 1..n |-> IF i = n THEN SelfId ELSE req.path_trace[i][1]]
        reversed == [i \in 1..n |-> ids[n + 1 - i]]
    IN  IF reversed[n] # req.initiator_id
        THEN reversed \o <<req.initiator_id>>
        ELSE reversed

\* C15: after a flood request is handled, the route stored for its initiator is
\* the reverse of the ids of the path trace extended with the server, completed
\* with the initiator when it does not end with it, with hop index 1 (the first
\* hop after the server), whatever route was stored for the initiator before;
\* a flood response that is sent carries this route.
C15_FloodRequestStoresReturnRoute ==
    LastIs("FloodRequest") =>
        LET req == last.item.pack_type
            route == [hops |-> ReturnHops(req), hop_index |-> 1]
            responses == SendsOf(last.out, "FloodResponse")
        IN  /\ req.initiator_id \in DOMAIN node_path
            /\ node_path[req.initiator_id] = route
            /\ \A i \in 1..Len(responses) : responses[i].packet.routing_header = route

\* A flood request with an empty trace, of an initiator whose route had been
\* set by AddSender before, was answered.
C15_Witness ==
    /\ LastIs("FloodRequest")
    /\ last.item.pack_type.initiator_id = 2
    /\ last.item.pack_type.path_trace = <<>>
    /\ Len(SendsOf(last.out, "FloodResponse")) = 1
    /\ \E i \in 1..Len(log) :
          log[i].branch = "controller" /\ log[i].item = [type |-> "AddSender", node_id |-> 2, sender |-> 2]

\* C16 as stated: every route stored in the routing table has a current hop,
\* and that hop is in the neighbor table.
C16_StoredRoutesResolve ==
    \A n \in DOMAIN node_path :
        /\ current_hop(node_path[n]) # None
        /\ current_hop(node_path[n])[1] \in DOMAIN packet_send

\* The error a send to peer p must fail with in the current state, "" when it
\* must resolve.
ExpectedSendError(p) ==
    IF p \notin DOMAIN node_path THEN "UnknownNodeInfo"
    ELSE LET route == node_path[p]
         IN  IF route.hop_index >= Len(route.hops) THEN "UnknownNodeInfo"
             ELSE IF route.hops[route.hop_index + 1] \notin DOMAIN packet_send
             THEN "UnknownNodeId"
             ELSE ""

\* C17: in every reachable state and for every peer p, with or without a fixed
\* session, resolving a send to p fails with UnknownNodeInfo when no route to p
\* is stored or the stored route has no current hop, with UnknownNodeId when
\* the current hop is not in the neighbor table, and succeeds otherwise; when it
\* fails, send_packet and send_message_raw send nothing, emit nothing and leave
\* session counter and history (all of ServerSenders) as they were, and so did
\* the latest update() when it handled a fragment for another node whose Nack
\* could not be resolved.
C17_FailedSendChangesNothing ==
    /\ \A p \in Peers :
          LET s == CurrentSenders
              expected == ExpectedSendError(p)
          IN  /\ prepare_node_send(s, p, TRUE).err = expected
              /\ prepare_node_send(s, p, FALSE).err = expected
              /\ expected # "" =>
                    \A fixed \in {None, Some(1)} :
                        /\ send_packet(s, p, Ack(0), fixed) = s
                        /\ send_message_raw(SelfId, s, p, ShortRequest, fixed) = s
    /\ (LastFragmentForOther
          /\ ExpectedSendError(source(last.item.routing_header)[1]) # "")
       => last.out = <<>>

\* A fragment for another node came from peer 2, whose stored route has no
\* current hop: the Nack could not be sent.
C17_Witness ==
    /\ LastFragmentForOther
    /\ source(last.item.routing_header) = Some(2)
    /\ 2 \in DOMAIN node_path
    /\ current_hop(node_path[2]) = None
    /\ last.out = <<>>

\* The session id taken by the latest allocation before position i of out.
AllocatedBefore(out, i) ==
    LET at == {k \in 1..(i - 1) : out[k].op = "allocate"}
    IN  IF at = {} THEN None
        ELSE Some(out[CHOOSE k \in at : \A j \in at : j <= k].session)

\* Everything a send emitted (packets handed to a neighbor, controller events)
\* carries the session id.
AllOnSession(out, session) ==
    \A i \in 1..Len(out) :
        CASE out[i].op \in {"send", "PacketSend", "ControllerShortcut"} ->
                out[i].packet.session_id = session
          [] out[i].op \in {"MessageStartSend", "MessageFullySent", "allocate"} ->
                out[i].session = session
          [] OTHER -> TRUE

\* The message a sent fragment packet is a slice of.
MessageOf(packet) == packet.pack_type.fragment.data[1]

ShortcutFollows(out, i) ==
    /\ i < Len(out)
    /\ out[i + 1].op = "ControllerShortcut"
    /\ out[i + 1].packet = out[i].packet

\* C19: in every update(), a packet handed to a neighbor endpoint is followed by
\* a ControllerShortcut event carrying it exactly when the hand-over failed and
\* the packet is an Ack, a Nack or a FloodResponse; every ControllerShortcut
\* event follows such a failed hand-over of its packet, and none carries a
\* MsgFragment, whether sent as part of a message or sent again after a nack.
C19_ShortcutOnlyForFailedControlPackets ==
    \A i \in 1..Len(last.out) :
        /\ last.out[i].op = "send" =>
              (ShortcutFollows(last.out, i)
                 <=> /\ ~last.out[i].ok
                     /\ last.out[i].packet.pack_type.type \in {"Ack", "Nack", "FloodResponse"})
        /\ last.out[i].op = "ControllerShortcut" =>
              /\ i > 1
              /\ last.out[i - 1].op = "send"
              /\ ~last.out[i - 1].ok
              /\ last.out[i - 1].packet = last.out[i].packet
              /\ last.out[i].packet.pack_type.type # "MsgFragment"

\* The neighbor's endpoint was gone when a request arrived: its Ack went to the
\* controller, the fragment of the answer failed without a shortcut.
C19_Witness ==
    /\ LastFragmentForSelf
    /\ \E i \in 1..Len(last.out) :
          /\ last.out[i].op = "ControllerShortcut"
          /\ last.out[i].packet.pack_type.type = "Ack"
    /\ \E i \in 1..Len(last.out) :
          /\ last.out[i].op = "send"
          /\ last.out[i].packet.pack_type.type = "MsgFragment"
          /\ ~last.out[i].ok
          /\ ~ShortcutFollows(last.out, i)

\* The positions of out at which an Ack is handed to a neighbor.
AckPositions(out) ==
    {i \in 1..Len(out) : out[i].op = "send" /\ out[i].packet.pack_type.type = "Ack"}

\* The positions of out that belong to the on_message call: the call itself and
\* every packet that is not an Ack.
DispatchPositions(out) ==
    {i \in 1..Len(out) :
        \/ out[i].op = "on_message"
        \/ out[i].op = "send" /\ out[i].packet.pack_type.type # "Ack"}

\* C20: log holds the update() calls in the order in which they took their items
\* from the channels.  Each of them emits at most one Ack, and only when it took
\* a fragment addressed to the server: the Ack of that very fragment (its session,
\* its index), so that the Acks of a session leave in the order in which their
\* fragments were taken; and that Ack is emitted before on_message is called and
\* before any packet the call produces.
C20_AckFirstAndInArrivalOrder ==
    \A k \in 1..Len(log) :
        LET out == log[k].out
            acks == AckPositions(out)
        IN  /\ Cardinality(acks) <= 1
            /\ \A i \in acks :
                  /\ log[k].branch = "packet"
                  /\ log[k].item.pack_type.type = "MsgFragment"
                  /\ destination(log[k].item.routing_header) = Some(SelfId)
                  /\ out[i].packet.session_id = log[k].item.session_id
                  /\ out[i].packet.pack_type.fragment_index =
                        log[k].item.pack_type.fragment.fragment_index
                  /\ \A j \in DispatchPositions(out) : i < j

\* The second fragment of a message arrived before the first: each was
\* acknowledged by its own update(), and the one that completed the message
\* sent its Ack and then the two fragments of the answer.
C20_Witness ==
    /\ Len(log) = 2
    /\ LastFragmentForSelf
    /\ last.item.pack_type.fragment.fragment_index = 0
    /\ log[1].branch = "packet"
    /\ log[1].item.session_id = last.item.session_id
    /\ Len(SendsOf(log[1].out, "Ack")) = 1
    /\ SendsOf(log[1].out, "Ack")[1].packet.pack_type.fragment_index = 1
    /\ Len(SendsOf(last.out, "Ack")) = 1
    /\ Len(Calls(last.out)) = 1
    /\ Len(SendsOf(last.out, "MsgFragment")) = 2

-----------------------------------------------------------------------------
(* The chat, text and media protocols.                                      *)

\* The calls of Server::send_message recorded in out, in order.
MessageCalls(out) == SelectSeq(out, LAMBDA e : e.op = "send_message")

\* This step is an update() that reassembled a request of the given type and
\* handed it to the protocol.
HandlesRequest(type) ==
    /\ log' # log
    /\ last'.branch = "packet"
    /\ Calls(last'.out) # <<>>
    /\ Calls(last'.out)[1].message.type = type

\* The stored route to p has a current hop, and that hop is a neighbor.
Resolves(routes, neighbors, p) ==
    /\ p \in DOMAIN routes
    /\ routes[p].hop_index < Len(routes[p].hops)
    /\ routes[p].hops[routes[p].hop_index + 1] \in DOMAIN neighbors

\* The fragments handed to a neighbor in out are those of the one message
\* passed to send_message when the route to its receiver resolves, in order and
\* each once, and there are none when it does not.
CarriesOnly(out, call, resolves) ==
    LET fragments == SendsOf(out, "MsgFragment")
    IN  /\ Len(fragments) = IF resolves THEN NFragments(call.message) ELSE 0
        /\ \A i \in 1..Len(fragments) :
              /\ destination(fragments[i].packet.routing_header) = Some(call.to)
              /\ fragments[i].packet.pack_type.fragment =
                    Fragment(i - 1, NFragments(call.message), <<call.message, i - 1>>)

C21_WitnessNotRegistered ==
    /\ LastFragmentForSelf
    /\ Calls(last.out) # <<>>
    /\ Calls(last.out)[1].message = SendRequest(3)
    /\ 3 \notin connected_clients
    /\ Len(SendsOf(last.out, "MsgFragment")) = 1
    /\ MessageOf(SendsOf(last.out, "MsgFragment")[1].packet) = ErrNotExistentClient
    /\ destination(SendsOf(last.out, "MsgFragment")[1].packet.routing_header) = Some(2)

\* C22 as stated: handling ReqChatRegistration from p passes no message to
\* send_message, hands no fragment to any neighbor and leaves the session
\* counter as it was; its only effect is that p is registered.
C22_RegistrationIsSilent ==
    [][HandlesRequest("ReqChatRegistration") =>
          /\ MessageCalls(last'.out) = <<>>
          /\ SendsOf(last'.out, "MsgFragment") = <<>>
          /\ session_id' = session_id
          /\ connected_clients' = connected_clients \cup {Calls(last'.out)[1].from}]_vars

\* The positions in the log of the update()s that handed a ReqChatRegistration
\* of peer p to the protocol.
RegistrationsOf(p) ==
    {i \in 1..Len(log) :
        /\ log[i].branch = "packet"
        /\ Calls(log[i].out) # <<>>
        /\ Calls(log[i].out)[1].message.type = "ReqChatRegistration"
        /\ Calls(log[i].out)[1].from = p}

\* C23: handling ReqChatRegistration from p makes the client set the set it was
\* together with p, so a registration of a peer already registered leaves the
\* set as it is; and no step of the server, whatever it handles, takes a client
\* out of the set: once registered, p is registered in every later state.
C23_RegistrationIdempotentAndPermanent ==
    [][/\ connected_clients \subseteq connected_clients'
       /\ HandlesRequest("ReqChatRegistration") =>
             connected_clients' = connected_clients \cup {Calls(last'.out)[1].from}]_vars

\* Peer 2 registered twice, the second time just now, and is in the client set
\* once.
C23_Witness ==
    /\ Cardinality(RegistrationsOf(2)) = 2
    /\ Len(log) \in RegistrationsOf(2)
    /\ connected_clients = {2}

\* Every fragment handed to a neighbor in out is on the given session.
FragmentsOnSession(out, session) ==
    \A i \in 1..Len(out) :
        (out[i].op = "send" /\ out[i].packet.pack_type.type = "MsgFragment")
        => out[i].packet.session_id = session

\* C24: when the chat server handles ReqChatClients from p on session S it
\* passes exactly one message to send_message: a RespClientList for p on
\* session S that lists the registered peers, each once and in any order, so
\* that its ids taken as a set are the client set; no other message leaves the
\* server in that update(), the fragments handed to a neighbor are those of
\* that message, on session S, when the route to p resolves, and the client set
\* is unchanged.
C24_ClientListAnswer ==
    [][HandlesRequest("ReqChatClients") =>
          LET request == Calls(last'.out)[1]
              sent == MessageCalls(last'.out)
          IN  /\ Len(sent) = 1
              /\ sent[1].to = request.from
              /\ sent[1].fixed_session = Some(request.session)
              /\ sent[1].message.type = "RespClientList"
              /\ Range(sent[1].message.list) = connected_clients
              /\ Len(sent[1].message.list) = Cardinality(connected_clients)
              /\ CarriesOnly(last'.out, sent[1], Resolves(node_path', packet_send', sent[1].to))
              /\ FragmentsOnSession(last'.out, request.session)
              /\ connected_clients' = connected_clients]_vars

\* Peers 2 and 3 are registered and peer 2 asked for the clients: one fragment
\* went to it, on the session of the request, listing both.
C24_Witness ==
    /\ LastFragmentForSelf
    /\ Calls(last.out) # <<>>
    /\ Calls(last.out)[1].message.type = "ReqChatClients"
    /\ Calls(last.out)[1].from = 2
    /\ connected_clients = {2, 3}
    /\ Len(SendsOf(last.out, "MsgFragment")) = 1
    /\ LET answer == SendsOf(last.out, "MsgFragment")[1].packet
       IN  /\ MessageOf(answer).type = "RespClientList"
           /\ Range(MessageOf(answer).list) = {2, 3}
           /\ answer.session_id = last.item.session_id
           /\ destination(answer.routing_header) = Some(2)

\* This step is an update() that handled a ReqServerType request sent as a
\* single fragment over a route that ends at the server.
HandlesServerTypeRequest ==
    /\ log' # log
    /\ last'.branch = "packet"
    /\ last'.item.pack_type.type = "MsgFragment"
    /\ last'.item.pack_type.fragment = Fragment(0, 1, <<[type |-> "ReqServerType"], 0>>)
    /\ source(last'.item.routing_header) # None
    /\ destination(last'.item.routing_header) = Some(SelfId)

\* The type the server answers ReqServerType with.
OwnServerType ==
    CASE protocol = "Chat" -> "Chat"
      [] protocol = "Text" -> "Text(hash(SamuelTextServer))"
      [] protocol = "Media" -> "Media(hash(SamuelMediaServer))"

\* The packets handed to a neighbor in out are an Ack{0} for the request p and
\* then one fragment on p's session that is the whole RespServerType message of
\* the server's type, both routed to p's source, and nothing else.
IsServerTypeAnswer(out, p, server_type) ==
    LET sends == Sends(out)
    IN  /\ Len(sends) = 2
        /\ IsAckOf(sends[1], p)
        /\ sends[1].packet.pack_type.fragment_index = 0
        /\ sends[2].packet.pack_type =
              [type |-> "MsgFragment",
               fragment |-> Fragment(0, 1, <<[type |-> "RespServerType",
                                              server_type |-> server_type], 0>>)]
        /\ sends[2].packet.session_id = p.session_id
        /\ destination(sends[2].packet.routing_header) = source(p.routing_header)

\* C25 as stated: whenever a peer sends ReqServerType as a single fragment on
\* session S over a route ending at the server, the server hands to a neighbor
\* exactly one Ack{0} on S and then exactly one fragment on S that decodes to
\* RespServerType of its own type, and nothing else, whatever its tables hold.
C25_ServerTypeEndToEnd ==
    [][HandlesServerTypeRequest =>
          IsServerTypeAnswer(last'.out, last'.item, OwnServerType)]_vars

\* C25 amended: the Ack{0} and the RespServerType fragment are handed, in this
\* order and with nothing else, to the endpoint of the hop before the server
\* when that hop is in the neighbor table and no fragment of that peer and
\* session was waiting for the rest of a message; when fragments were waiting
\* the Ack still comes first; when the hop is not in the neighbor table nothing
\* is handed to any neighbor.
C25_ServerTypeThroughKnownNeighbor ==
    [][HandlesServerTypeRequest =>
          LET p == last'.item
              previous == PreviousHop(p.routing_header)
              sends == Sends(last'.out)
          IN  IF previous \notin DOMAIN packet_send
              THEN sends = <<>>
              ELSE IF <<p.session_id, source(p.routing_header)[1]>> \in DOMAIN pending_fragments
              THEN sends # <<>> /\ IsAckOf(sends[1], p)
              ELSE /\ IsServerTypeAnswer(last'.out, p, OwnServerType)
                   /\ \A i \in 1..2 : sends[i].to = packet_send[previous]]_vars

\* A text server answered the ReqServerType of neighbor 2 with the Ack and then
\* with its own type.
C25_Witness ==
    /\ protocol = "Text"
    /\ LastFragmentForSelf
    /\ last.item.pack_type.fragment = into_fragments(ShortRequest)[1]
    /\ Len(Sends(last.out)) = 2
    /\ Sends(last.out)[1].packet.pack_type = Ack(0)
    /\ MessageOf(Sends(last.out)[2].packet) = RespServerType(TextServerType)
    /\ Sends(last.out)[2].packet.session_id = last.item.session_id

\* The request types each protocol has an arm for.
Recognised ==
    CASE protocol = "Chat" ->
            {"ReqServerType", "ReqChatRegistration", "ReqChatClients", "ReqChatSend"}
      [] protocol = "Text" -> {"ReqServerType", "ReqFilesList", "ReqFile"}
      [] protocol = "Media" -> {"ReqServerType", "ReqMedia"}

\* This step is an update() that handed the protocol a message it has no arm
\* for.
HandlesUnrecognised ==
    /\ log' # log
    /\ last'.branch = "packet"
    /\ Calls(last'.out) # <<>>
    /\ Calls(last'.out)[1].message.type \notin Recognised

\* C26: when the chat, the text or the media server is handed a message its
\* protocol does not recognise, it passes exactly one message to send_message:
\* ErrUnsupportedRequestType for the sender on the session of the request; no
\* other message leaves the server in that update(), the fragment handed to a
\* neighbor is that of this message, on the request's session, when the route
\* to the sender resolves, and the protocol's state (client set, file or media
\* map) is unchanged.
C26_UnsupportedRequestAnswer ==
    [][HandlesUnrecognised =>
          LET request == Calls(last'.out)[1]
              sent == MessageCalls(last'.out)
          IN  /\ sent = <<[op |-> "send_message", to |-> request.from,
                           message |-> [type |-> "ErrUnsupportedRequestType"],
                           fixed_session |-> Some(request.session)]>>
              /\ CarriesOnly(last'.out, sent[1], Resolves(node_path', packet_send', sent[1].to))
              /\ FragmentsOnSession(last'.out, request.session)
              /\ connected_clients' = connected_clients
              /\ file_map' = file_map]_vars

\* A media server was asked for the list of files by neighbor 2 and answered
\* with the error, on the session of the request.
C26_Witness ==
    /\ protocol = "Media"
    /\ LastFragmentForSelf
    /\ Calls(last.out) # <<>>
    /\ Calls(last.out)[1].message = FilesListRequest
    /\ Len(SendsOf(last.out, "MsgFragment")) = 1
    /\ MessageOf(SendsOf(last.out, "MsgFragment")[1].packet) = ErrUnsupportedRequestType
    /\ SendsOf(last.out, "MsgFragment")[1].packet.session_id = last.item.session_id
    /\ destination(SendsOf(last.out, "MsgFragment")[1].packet.routing_header) = Some(2)

\* This step is an update() that handed ReqFile to the text server or ReqMedia
\* to the media server.
HandlesLookup ==
    \/ protocol = "Text" /\ HandlesRequest("ReqFile")
    \/ protocol = "Media" /\ HandlesRequest("ReqMedia")

\* C27: when the text server handles ReqFile(link), or the media server
\* ReqMedia(link), it passes exactly one message to send_message, for the
\* requester and on the session of the request: RespFile (RespMedia) with the
\* value stored under link when link is a key of the map, ErrNotFound when it
\* is not; no other message leaves the server in that update(), the fragments
\* handed to a neighbor are those of that message, on the request's session,
\* when the route to the requester resolves; and no step ever modifies the map.
C27_LookupAnswer ==
    [][/\ file_map' = file_map
       /\ HandlesLookup =>
             LET request == Calls(last'.out)[1]
                 link == request.message.link
                 sent == MessageCalls(last'.out)
             IN  /\ Len(sent) = 1
                 /\ sent[1].to = request.from
                 /\ sent[1].fixed_session = Some(request.session)
                 /\ sent[1].message =
                       IF link \notin DOMAIN file_map THEN [type |-> "ErrNotFound"]
                       ELSE IF protocol = "Text"
                       THEN [type |-> "RespFile", file |-> file_map[link]]
                       ELSE [type |-> "RespMedia", media |-> file_map[link]]
                 /\ CarriesOnly(last'.out, sent[1],
                                Resolves(node_path', packet_send', sent[1].to))
                 /\ FragmentsOnSession(last'.out, request.session)]_vars

\* Peer 3 asked the media server for chicken.jpeg and got it, in two fragments
\* on the session of its request.
C27_Witness ==
    /\ protocol = "Media"
    /\ LastFragmentForSelf
    /\ Calls(last.out) # <<>>
    /\ Calls(last.out)[1].message = MediaRequest("chicken.jpeg")
    /\ Calls(last.out)[1].from = 3
    /\ Len(SendsOf(last.out, "MsgFragment")) = 2
    /\ \A i \in 1..2 :
          LET answer == SendsOf(last.out, "MsgFragment")[i].packet
          IN  /\ MessageOf(answer) = RespMedia(MediaFiles["chicken.jpeg"])
              /\ answer.session_id = last.item.session_id
              /\ destination(answer.routing_header) = Some(3)
    /\ file_map = MediaFiles

\* The text server was asked for a file it does not store and answered
\* ErrNotFound.
C27_WitnessNotFound ==
    /\ protocol = "Text"
    /\ LastFragmentForSelf
    /\ Calls(last.out) # <<>>
    /\ Calls(last.out)[1].message = FileRequest("missing")
    /\ Len(SendsOf(last.out, "MsgFragment")) = 1
    /\ MessageOf(SendsOf(last.out, "MsgFragment")[1].packet) = ErrNotFound

-----------------------------------------------------------------------------
(* The send path: controller events, history.                               *)

\* The entries of out from position i on are those of one message sent to the
\* peer dest on the given session: MessageStartSend, then for each fragment, by
\* increasing index, PacketSend of the fragment's packet and the hand-over of
\* that same packet to the endpoint (whether or not it succeeds), all packets
\* on the session and on the route stored for dest, then MessageFullySent.
IsMessageEmission(out, i, dest, message, session) ==
    LET n == NFragments(message)
    IN  /\ i + 2 * n + 1 <= Len(out)
        /\ out[i] = [op |-> "MessageStartSend", start |-> SelfId, session |-> session,
                     dest |-> dest, message |-> message]
        /\ \A k \in 1..n :
              LET packet == [routing_header |-> node_path[dest],
                             session_id |-> session,
                             pack_type |-> [type |-> "MsgFragment",
                                            fragment |-> Fragment(k - 1, n, <<message, k - 1>>)]]
              IN  /\ out[i + 2 * k - 1] = [op |-> "PacketSend", packet |-> packet]
                  /\ out[i + 2 * k].op = "send"
                  /\ out[i + 2 * k].packet = packet
                  /\ out[i + 2 * k].to = packet_send[current_hop(node_path[dest])[1]]
        /\ out[i + 2 * n + 1] = [op |-> "MessageFullySent", start |-> SelfId,
                                 session |-> session]
        /\ i + 2 * n + 1 < Len(out) => out[i + 2 * n + 2].op = "send_message"

\* C28: in every update(), a call of send_message whose route resolves emits
\* (after taking a fresh session id when none is fixed) one MessageStartSend
\* {start = the server, session, dest, message}, then for each fragment in
\* increasing index one PacketSend(packet) followed by the hand-over of that
\* packet to the resolved neighbor, then one MessageFullySent(server, session),
\* all fragments on the same session and route, also when the neighbor's
\* receiver is gone and every hand-over fails; a call whose route does not
\* resolve emits nothing.
C28_MessageEmissionOrder ==
    \A i \in 1..Len(last.out) :
        last.out[i].op = "send_message" =>
            LET call == last.out[i]
            IN  IF Resolves(node_path, packet_send, call.to)
                THEN IF call.fixed_session = None
                     THEN /\ i + 1 <= Len(last.out)
                          /\ last.out[i + 1].op = "allocate"
                          /\ IsMessageEmission(last.out, i + 2, call.to, call.message,
                                               last.out[i + 1].session)
                     ELSE IsMessageEmission(last.out, i + 1, call.to, call.message,
                                            call.fixed_session[1])
                ELSE i < Len(last.out) => last.out[i + 1].op = "send_message"

\* The media server sent chicken.jpeg, two fragments, to a neighbor whose
\* receiver is gone: both hand-overs failed and MessageFullySent closes the
\* update.
C28_Witness ==
    /\ LastFragmentForSelf
    /\ Len(SendsOf(last.out, "MsgFragment")) = 2
    /\ \A i \in 1..2 : ~SendsOf(last.out, "MsgFragment")[i].ok
    /\ last.out[Len(last.out)].op = "MessageFullySent"

\* C29: in every update(), every hand-over of a packet to a neighbor endpoint
\* (an Ack, a Nack, a FloodResponse, a fragment of a message or a fragment sent
\* again after a Dropped nack, whether or not the endpoint's receiver is still
\* there) comes right after a PacketSend event that carries the same packet,
\* and every PacketSend event is followed by the hand-over of its packet: one
\* event per attempt.
C29_PacketSendBeforeEveryHandOver ==
    \A i \in 1..Len(last.out) :
        /\ last.out[i].op = "send" =>
              /\ i > 1
              /\ last.out[i - 1] = [op |-> "PacketSend", packet |-> last.out[i].packet]
        /\ last.out[i].op = "PacketSend" =>
              /\ i < Len(last.out)
              /\ last.out[i + 1].op = "send"
              /\ last.out[i + 1].packet = last.out[i].packet

\* A Dropped nack made the server send a recorded fragment again, announced by
\* its PacketSend event.
C29_Witness ==
    /\ LastIs("Nack")
    /\ Len(last.out) = 2
    /\ last.out[1].op = "PacketSend"
    /\ last.out[2].op = "send"
    /\ last.out[2].packet = last.out[1].packet
    /\ last.out[2].packet.pack_type.type = "MsgFragment"

\* C30: in every reachable state every value of the send history is a
\* MsgFragment packet whose session id and fragment index are its key; and a
\* history entry is created or changed only by an update() that hands that very
\* fragment packet to a neighbor, so the Acks, Nacks and FloodResponses the
\* server emits never create or change one.
C30_HistoryHoldsOnlyFragments ==
    /\ [](\A key \in DOMAIN history :
             /\ history[key].pack_type.type = "MsgFragment"
             /\ key = <<history[key].session_id,
                        history[key].pack_type.fragment.fragment_index>>)
    /\ [][\A key \in DOMAIN history' :
             (key \notin DOMAIN history \/ history'[key] # history[key]) =>
                /\ log' # log
                /\ \E i \in 1..Len(last'.out) :
                      /\ last'.out[i].op = "send"
                      /\ last'.out[i].packet.pack_type.type = "MsgFragment"
                      /\ last'.out[i].packet = history'[key]]_vars

\* The two fragments of chicken.jpeg are in the history, and the FloodResponse
\* the server then sent is not.
C30_Witness ==
    /\ LastIs("FloodRequest")
    /\ Len(SendsOf(last.out, "FloodResponse")) = 1
    /\ DOMAIN history = {<<1, 0>>, <<1, 1>>}
    /\ \A key \in DOMAIN history : MessageOf(history[key]).type = "RespMedia"

-----------------------------------------------------------------------------
(* Frames, learned routes, reassembly, retransmission, progress.            *)

\* The packets update() only drops: an Ack, a packet of a type it does not
\* handle, a fragment whose route has no source.
IsDroppedPacket(p) ==
    \/ p.pack_type.type \in {"Ack", "FloodResponse"}
    \/ p.pack_type.type = "MsgFragment" /\ source(p.routing_header) = None

\* C31: an update() that takes an Ack, a packet of a type the server does not
\* handle (FloodResponse) or a MsgFragment whose route has no source hands no
\* packet to a neighbor, emits no controller event, and leaves the routing
\* table, the neighbor table, the session counter, the send history, the
\* reassembly buffer, the protocol's state and the running flag as they were.
C31_DroppedPacketsChangeNothing ==
    [][(packet_recv # <<>> /\ IsDroppedPacket(Head(packet_recv))
          /\ HandlesPacket(Head(packet_recv)))
       => /\ last'.item = Head(packet_recv)
          /\ last'.out = <<>>
          /\ UNCHANGED <<node_path, packet_send, session_id, history, pending_fragments,
                         protocol, connected_clients, file_map, running>>]_vars

\* An Ack arrived for a fragment that is in the history, and nothing happened.
C31_Witness ==
    /\ LastIs("Ack")
    /\ last.out = <<>>
    /\ <<last.item.session_id, last.item.pack_type.fragment_index>> \in DOMAIN history
    /\ session_id > 0

\* A fragment without a source arrived at a server that holds routes, and
\* nothing happened.
C31_WitnessNoSource ==
    /\ LastIs("MsgFragment")
    /\ source(last.item.routing_header) = None
    /\ last.out = <<>>
    /\ node_path # EmptyMap

\* C32: after an update() handled a fragment with route R, source src and the
\* server as destination, the routing table holds for src the hops of R in
\* reverse order with the hop index of the reversed route advanced by one,
\* whatever route to src was stored before (one from AddSender or from a flood
\* request included); the Ack of that update(), when one is sent, already
\* carries this route.
C32_FragmentTeachesReverseRoute ==
    LastFragmentForSelf =>
        LET R == last.item.routing_header
            src == R.hops[1]
            learned == [hops |-> [i \in 1..Len(R.hops) |-> R.hops[Len(R.hops) + 1 - i]],
                        hop_index |-> (Len(R.hops) - R.hop_index - 1) + 1]
        IN  /\ src \in DOMAIN node_path
            /\ node_path[src] = learned
            /\ \A i \in 1..Len(last.out) :
                  (last.out[i].op = "send" /\ last.out[i].packet.pack_type.type = "Ack")
                  => last.out[i].packet.routing_header = learned

\* AddSender(3, ..) had stored the direct route to peer 3; a fragment of peer 3
\* that came through neighbor 2 replaced it, and the Ack went out on the new
\* route.
C32_Witness ==
    /\ LastFragmentForSelf
    /\ last.item.routing_header = RouteFrom3
    /\ \E i \in 1..Len(log) :
          /\ log[i].branch = "controller"
          /\ log[i].item.type = "AddSender"
          /\ log[i].item.node_id = 3
    /\ node_path[3] = Route(<<SelfId, 2, 3>>, 1)
    /\ Len(SendsOf(last.out, "Ack")) = 1
    /\ SendsOf(last.out, "Ack")[1].packet.routing_header = Route(<<SelfId, 2, 3>>, 1)

\* The key of the reassembly entry a fragment packet belongs to.
PendingKey(p) == <<p.session_id, source(p.routing_header)[1]>>

\* This step is an update() that handled the fragment packet p, which has a
\* source and is addressed to the server.
HandlesFragmentForSelf(p) ==
    /\ p.pack_type.type = "MsgFragment"
    /\ source(p.routing_header) # None
    /\ destination(p.routing_header) = Some(SelfId)
    /\ HandlesPacket(p)

\* The fragments buffered under the key of p before the step, followed by the
\* fragment of p.
GroupWith(p) ==
    (IF PendingKey(p) \in DOMAIN pending_fragments
     THEN pending_fragments[PendingKey(p)] ELSE <<>>)
        \o <<p.pack_type.fragment>>

\* The group holds a fragment for every index below total.
HoldsEveryIndex(group, total) ==
    \A index \in 0..(total - 1) : \E j \in 1..Len(group) : group[j].fragment_index = index

\* C33 as stated: the reassembly entry of (session, peer) is flushed (removed
\* from the buffer, to be decoded or discarded) only when, with the fragment
\* that just arrived, it holds a fragment for every index 0..total_n_fragments-1;
\* a fragment whose index is already buffered does not count toward completion.
C33_FlushOnlyWhenEveryIndexPresent ==
    [][\A p \in Packets :
          (HandlesFragmentForSelf(p) /\ PendingKey(p) \notin DOMAIN pending_fragments')
          => HoldsEveryIndex(GroupWith(p), p.pack_type.fragment.total_n_fragments)]_vars

\* The positions in the log of the update()s that handed the message of peer
\* from on the given session to the protocol.
DeliveriesOf(session, from, message) ==
    {i \in 1..Len(log) :
        /\ log[i].branch = "packet"
        /\ Calls(log[i].out) # <<>>
        /\ Calls(log[i].out)[1].session = session
        /\ Calls(log[i].out)[1].from = from
        /\ Calls(log[i].out)[1].message = message}

\* C34 as stated: a message of one peer on one session is handed to the
\* protocol at most once, however often its fragments arrive again after the
\* group was flushed, and no reassembly entry made of such late copies stays in
\* the buffer.
C34_DeliveredAtMostOnce ==
    \A session \in Sessions, from \in Peers, message \in Requests :
        /\ Cardinality(DeliveriesOf(session, from, message)) <= 1
        /\ (DeliveriesOf(session, from, message) # {}
              /\ <<session, from>> \in DOMAIN pending_fragments)
           => \A k \in 1..Len(pending_fragments[<<session, from>>]) :
                 pending_fragments[<<session, from>>][k].data[1] # message

\* C35 as stated: in every reachable state, every entry of the reassembly buffer
\* holds at least one fragment and strictly fewer fragments than the total each
\* of its fragments announces, so that further arrivals can still complete it.
C35_PendingEntriesCanComplete ==
    \A key \in DOMAIN pending_fragments :
        LET fragments == pending_fragments[key]
        IN  /\ Len(fragments) >= 1
            /\ \A k \in 1..Len(fragments) : Len(fragments) < fragments[k].total_n_fragments

\* C36 as stated: a fragment packet recorded in the send history under
\* (session, index) is found there unchanged in every later state, so that a
\* Dropped Nack for (session, index) sends the packet of the original send
\* again, with its route and destination.
C36_HistoryKeepsEverySentFragment ==
    [][\A key \in DOMAIN history :
          /\ key \in DOMAIN history'
          /\ history'[key] = history[key]]_vars

\* C37 as stated: while run() is looping, a packet waiting on the packet
\* channel is eventually taken by an update(), so the queue drains once the
\* peers and the controller have stopped sending, unless Kill ends the loop;
\* and this whether the command channel is empty with its sender alive or has
\* lost every sender.
C37_EveryPacketEventuallyProcessed ==
    (packet_recv # <<>>) ~> (packet_recv = <<>> \/ ~running)

====
